---- MODULE Spec2Model ----
(***************************************************************************)
(* A model of the metadata changelog (VersionEdit, db/version_edit.{h,cc}) *)
(* and of the write batch with its guard selector (db/write_batch.cc).     *)
(* Buffers are sequences of bytes (0..255); the encoders and decoders are  *)
(* modelled byte by byte.                                                   *)
(***************************************************************************)
EXTENDS Integers, Sequences, FiniteSets, TLC

VARIABLES
  ndebug,      \* the build: TRUE when assert() is compiled out (NDEBUG)
  pc,          \* position of the driver of the VersionEdit specification
  edit,        \* the VersionEdit being built by the mutators
  ecalls,      \* the mutator calls made on edit so far (history)
  ecrashed,    \* a mutator call on edit ended the process
  buf,         \* the bytes EncodeTo(edit) appended to an empty string
  cut,         \* how many bytes of buf were handed to DecodeFrom
  dec,         \* the VersionEdit DecodeFrom was called on
  dstatus,     \* what that DecodeFrom returned
  hash,        \* MurmurHash3_x86_32(key, seed 42) of each key
  rep,         \* rep_ of the two WriteBatch objects, a and b
  recs,        \* per batch, the records put into it through the API (history)
  events,      \* what else was done to batch a (history)
  op,          \* the last operation run on the batches, with its result
  chosen       \* per key, the Puts the selector handled and the shallowest
               \* fence levels it chose for them (history)

vars == <<ndebug, pc, edit, ecalls, ecrashed, buf, cut, dec, dstatus,
          hash, rep, recs, events, op, chosen>>

editVars == <<pc, edit, ecalls, ecrashed, buf, cut, dec, dstatus>>
batchVars == <<hash, rep, recs, events, op, chosen>>

-----------------------------------------------------------------------------
(* Bounds of the model. *)

\* mutator calls made on one VersionEdit
MaxOps == 2
\* records appended to batch a through Put / Delete / PutFence
MaxRecs == 3
\* records appended to batch b
MaxRecsB == 1
\* records put into the batch handed to the guard selector
MaxGuardRecs == 2

-----------------------------------------------------------------------------
(* Program constants. *)

\* config::kNumLevels (db/dbformat.h)
kNumLevels == 7
Levels == 0 .. (kNumLevels - 1)

\* enum Tag
kComparator == 1
kLogNumber == 2
kNextFileNumber == 3
kLastSequence == 4
kCompactPointer == 5
kDeletedFile == 6
kNewFile == 7
kPrevLogNumber == 9
kNewFence == 10
kDeletedFence == 11
kFileInsideFence == 12
kNewSentinelFile == 13
kDeletedSentinelFile == 14
kNewCompleteFence == 15
kNewSentinelFileNo == 16

-----------------------------------------------------------------------------
(* util/coding: varints and length-prefixed slices. *)

RECURSIVE PutVarint(_)
PutVarint(v) ==
  IF v < 128 THEN <<v>> ELSE <<(v % 128) + 128>> \o PutVarint(v \div 128)

PutLengthPrefixedSlice(s) == PutVarint(Len(s)) \o s

Drop(s, n) == SubSeq(s, n + 1, Len(s))
Take(s, n) == SubSeq(s, 1, n)

\* A varint of at most n bytes off the front of input. On failure the input
\* is left where it was.
\* The byte b read with its continuation bit set, r being what the bytes behind
\* it gave.
VarintMore(input, b, r) ==
  IF r.ok THEN [ok |-> TRUE, val |-> (b - 128) + 128 * r.val, rest |-> r.rest]
          ELSE [ok |-> FALSE, val |-> 0, rest |-> input]

RECURSIVE GetVarintN(_, _)
GetVarintN(input, n) ==
  IF n = 0 \/ input = <<>>
    THEN [ok |-> FALSE, val |-> 0, rest |-> input]
    ELSE IF Head(input) < 128
           THEN [ok |-> TRUE, val |-> Head(input), rest |-> Tail(input)]
           ELSE VarintMore(input, Head(input), GetVarintN(Tail(input), n - 1))

GetVarint32(input) == GetVarintN(input, 5)
GetVarint64(input) == GetVarintN(input, 10)

\* The slice behind the length l read: on a length that exceeds what is left,
\* the length has been consumed.
SliceOfLength(l) ==
  IF l.ok /\ Len(l.rest) >= l.val
    THEN [ok |-> TRUE, val |-> Take(l.rest, l.val), rest |-> Drop(l.rest, l.val)]
    ELSE [ok |-> FALSE, val |-> <<>>, rest |-> l.rest]

GetLengthPrefixedSlice(input) == SliceOfLength(GetVarint32(input))

\* InternalKey::DecodeFrom(s): the key takes the bytes; an empty key is a failure.
InternalKeyOf(s) ==
  IF s.ok THEN [ok |-> s.val # <<>>, val |-> s.val, rest |-> s.rest]
          ELSE [ok |-> FALSE, val |-> <<>>, rest |-> s.rest]

GetInternalKey(input) == InternalKeyOf(GetLengthPrefixedSlice(input))

GetLevel(input) ==
  LET v == GetVarint32(input) IN
  IF v.ok /\ v.val < kNumLevels
    THEN [ok |-> TRUE, val |-> v.val, rest |-> v.rest]
    ELSE [ok |-> FALSE, val |-> 0, rest |-> v.rest]

-----------------------------------------------------------------------------
(* VersionEdit: the data, the constructor and the mutators. *)

EmptyPerLevel == [l \in Levels |-> <<>>]

\* The members as their default constructors leave them, before Clear().
RawEdit ==
  [ comparator_ |-> <<>>, log_number_ |-> 0, prev_log_number_ |-> 0,
    next_file_number_ |-> 0, last_sequence_ |-> 0,
    has_comparator_ |-> FALSE, has_log_number_ |-> FALSE,
    has_prev_log_number_ |-> FALSE, has_next_file_number_ |-> FALSE,
    has_last_sequence_ |-> FALSE,
    compact_pointers_ |-> <<>>, deleted_files_ |-> {}, new_files_ |-> <<>>,
    sentinel_files_ |-> EmptyPerLevel, sentinel_file_nos_ |-> EmptyPerLevel,
    deleted_sentinel_files_ |-> {},
    new_fences_ |-> EmptyPerLevel, new_complete_fences_ |-> EmptyPerLevel,
    deleted_fences_ |-> <<>> ]

Clear(e) ==
  [e EXCEPT !.comparator_ = <<>>, !.log_number_ = 0, !.prev_log_number_ = 0,
            !.last_sequence_ = 0, !.next_file_number_ = 0,
            !.has_comparator_ = FALSE, !.has_log_number_ = FALSE,
            !.has_prev_log_number_ = FALSE, !.has_next_file_number_ = FALSE,
            !.has_last_sequence_ = FALSE,
            !.compact_pointers_ = <<>>, !.deleted_files_ = {}, !.new_files_ = <<>>,
            !.new_fences_ = EmptyPerLevel, !.sentinel_files_ = EmptyPerLevel]

\* VersionEdit() { Clear(); }
NewVersionEdit == Clear(RawEdit)

\* FileMetaData(): refs 0, allowed_seeks 1 << 30, no fence.
FileMeta(number, file_size, smallest, largest) ==
  [refs |-> 0, allowed_seeks |-> 1073741824, number |-> number,
   file_size |-> file_size, smallest |-> smallest, largest |-> largest]

\* FenceMetaData(): level -1, no keys, no segments, no files.
NewFenceMeta ==
  [level |-> -1, number_segments |-> 0, fence_key |-> <<>>,
   smallest |-> <<>>, largest |-> <<>>, files |-> <<>>]

SetComparatorName(e, name) ==
  [e EXCEPT !.has_comparator_ = TRUE, !.comparator_ = name]
SetLogNumber(e, num) == [e EXCEPT !.has_log_number_ = TRUE, !.log_number_ = num]
SetPrevLogNumber(e, num) ==
  [e EXCEPT !.has_prev_log_number_ = TRUE, !.prev_log_number_ = num]
SetNextFile(e, num) ==
  [e EXCEPT !.has_next_file_number_ = TRUE, !.next_file_number_ = num]
SetLastSequence(e, seq) ==
  [e EXCEPT !.has_last_sequence_ = TRUE, !.last_sequence_ = seq]
SetCompactPointer(e, level, key) ==
  [e EXCEPT !.compact_pointers_ = Append(@, <<level, key>>)]

AddFile(e, level, file, file_size, smallest, largest) ==
  [e EXCEPT !.new_files_ =
     Append(@, <<level, FileMeta(file, file_size, smallest, largest)>>)]

AddFileToSentinel(e, f, level) ==
  [e EXCEPT !.sentinel_files_[level] = Append(@, f)]

AddSentinelFile(e, level, allowed_seeks, file_size, largest, smallest, number, refs) ==
  [e EXCEPT !.sentinel_files_[level] =
     Append(@, [refs |-> refs, allowed_seeks |-> allowed_seeks, number |-> number,
                file_size |-> file_size, smallest |-> smallest, largest |-> largest])]

AddSentinelFileNo(e, level, no) ==
  [e EXCEPT !.sentinel_file_nos_[level] = Append(@, no)]

AddFence(e, level, fence_key) ==
  [e EXCEPT !.new_fences_[level] =
     Append(@, [NewFenceMeta EXCEPT !.fence_key = fence_key, !.level = level,
                                    !.number_segments = 0])]

AddCompleteFence(e, level, fence_key) ==
  [e EXCEPT !.new_complete_fences_[level] =
     Append(@, [NewFenceMeta EXCEPT !.fence_key = fence_key, !.level = level,
                                    !.number_segments = 0])]

AddFenceWithFiles(e, level, number_segments, fence_key, smallest, largest, files) ==
  [e EXCEPT !.new_fences_[level] =
     Append(@, [level |-> level, number_segments |-> number_segments,
                fence_key |-> fence_key, smallest |-> smallest,
                largest |-> largest, files |-> files])]

RemoveFile(e, level, file) ==
  [e EXCEPT !.deleted_files_ = @ \cup {<<level, file>>}]

DeleteSentinelFile(e, level, file) ==
  [e EXCEPT !.deleted_sentinel_files_ = @ \cup {<<level, file>>}]

\* DeletedFenceSet is a std::set ordered by BySmallestPair, whose
\* internal_comparator no constructor sets: the set's default constructor
\* value-initialises it to null. Pairs of different levels are ordered by
\* level without touching it. Inserting a pair whose level the set already
\* holds calls internal_comparator->Compare: undefined behaviour, of which ub
\* names the outcome: the process ends ("crash"), the pair counts as
\* equivalent to one in the set ("equivalent"), or as different from all
\* ("distinct").
UBOutcomes == {"crash", "equivalent", "distinct"}

SameLevel(fences, level) == \E i \in 1 .. Len(fences) : fences[i][1] = level

InsertByLevel(fences, p) ==
  LET n == Cardinality({i \in 1 .. Len(fences) : fences[i][1] <= p[1]}) IN
  Take(fences, n) \o <<p>> \o Drop(fences, n)

InsertDeletedFence(fences, p, ub) ==
  IF SameLevel(fences, p[1])
    THEN CASE ub = "crash" -> [crashed |-> TRUE, set |-> fences]
           [] ub = "equivalent" -> [crashed |-> FALSE, set |-> fences]
           [] OTHER -> [crashed |-> FALSE, set |-> InsertByLevel(fences, p)]
    ELSE [crashed |-> FALSE, set |-> InsertByLevel(fences, p)]

DeleteFence(e, level, fence, ub) ==
  LET r == InsertDeletedFence(e.deleted_fences_, <<level, fence>>, ub) IN
  [crashed |-> r.crashed, e |-> [e EXCEPT !.deleted_fences_ = r.set]]

-----------------------------------------------------------------------------
(* VersionEdit::EncodeTo. *)

\* A std::set<std::pair<int, uint64_t>> in its iteration order.
RECURSIVE SortedPairs(_)
SortedPairs(S) ==
  IF S = {} THEN <<>>
  ELSE LET m == CHOOSE x \in S :
                  \A y \in S : x[1] < y[1] \/ (x[1] = y[1] /\ x[2] <= y[2])
       IN <<m>> \o SortedPairs(S \ {m})

RECURSIVE Concat(_)
Concat(ss) == IF ss = <<>> THEN <<>> ELSE Head(ss) \o Concat(Tail(ss))

FenceEntry(tag, f) ==
  PutVarint(tag) \o PutVarint(f.level) \o PutVarint(0)
    \o PutLengthPrefixedSlice(f.fence_key)

\* The entries EncodeTo writes, in the order it writes them.
EncodedEntries(e) ==
  (IF e.has_comparator_
     THEN <<PutVarint(kComparator) \o PutLengthPrefixedSlice(e.comparator_)>>
     ELSE <<>>)
  \o (IF e.has_log_number_
        THEN <<PutVarint(kLogNumber) \o PutVarint(e.log_number_)>> ELSE <<>>)
  \o (IF e.has_prev_log_number_
        THEN <<PutVarint(kPrevLogNumber) \o PutVarint(e.prev_log_number_)>> ELSE <<>>)
  \o (IF e.has_next_file_number_
        THEN <<PutVarint(kNextFileNumber) \o PutVarint(e.next_file_number_)>> ELSE <<>>)
  \o (IF e.has_last_sequence_
        THEN <<PutVarint(kLastSequence) \o PutVarint(e.last_sequence_)>> ELSE <<>>)
  \o [i \in 1 .. Len(e.compact_pointers_) |->
        PutVarint(kCompactPointer) \o PutVarint(e.compact_pointers_[i][1])
          \o PutLengthPrefixedSlice(e.compact_pointers_[i][2])]
  \o (LET d == SortedPairs(e.deleted_files_) IN
      [i \in 1 .. Len(d) |->
        PutVarint(kDeletedFile) \o PutVarint(d[i][1]) \o PutVarint(d[i][2])])
  \o [i \in 1 .. Len(e.new_files_) |->
        LET f == e.new_files_[i][2] IN
        PutVarint(kNewFile) \o PutVarint(e.new_files_[i][1])
          \o PutVarint(f.number) \o PutVarint(f.file_size)
          \o PutLengthPrefixedSlice(f.smallest) \o PutLengthPrefixedSlice(f.largest)]
  \o [i \in 1 .. Len(e.deleted_fences_) |->
        PutVarint(kDeletedFence) \o PutVarint(e.deleted_fences_[i][1])
          \o PutLengthPrefixedSlice(e.deleted_fences_[i][2])]
  \o Concat([k \in 1 .. kNumLevels |->
        [i \in 1 .. Len(e.new_fences_[k - 1]) |->
           FenceEntry(kNewFence, e.new_fences_[k - 1][i])]])
  \o Concat([k \in 1 .. kNumLevels |->
        [i \in 1 .. Len(e.new_complete_fences_[k - 1]) |->
           FenceEntry(kNewCompleteFence, e.new_complete_fences_[k - 1][i])]])
  \o (LET d == SortedPairs(e.deleted_sentinel_files_) IN
      [i \in 1 .. Len(d) |->
        PutVarint(kDeletedSentinelFile) \o PutVarint(d[i][1]) \o PutVarint(d[i][2])])

EncodeTo(e, dst) == dst \o Concat(EncodedEntries(e))

-----------------------------------------------------------------------------
(* VersionEdit::DecodeFrom. *)

\* The locals of DecodeFrom that outlive one entry. nd gives what the build
\* and the stack decide: nd.ndebug (assert compiled out), the values the
\* uninitialised tag2 and fnumber hold, and the outcome of the comparator's
\* undefined behaviour.
DecodeStart(e, src, nd) ==
  [e |-> Clear(e), input |-> src, msg |-> "", aborted |-> FALSE,
   g |-> NewFenceMeta, tag2 |-> nd.tag2, fnumber |-> nd.fnumber]

\* for (j < g.number_segments): the nested file numbers of a new fence. Neither
\* read is checked: a failed read leaves tag2 or fnumber as it was.
RECURSIVE FenceFiles(_, _, _)
FenceFiles(st, j, nd) ==
  IF j = 0 \/ st.aborted THEN st
  ELSE LET t == GetVarint32(st.input)
           tag2 == IF t.ok THEN t.val ELSE st.tag2
       IN IF ~nd.ndebug /\ tag2 # kFileInsideFence
            THEN [st EXCEPT !.aborted = TRUE]
            ELSE LET n == GetVarint64(t.rest)
                     fnumber == IF n.ok THEN n.val ELSE st.fnumber
                 IN FenceFiles([st EXCEPT !.input = n.rest, !.tag2 = tag2,
                                          !.fnumber = fnumber,
                                          !.g.files = Append(@, fnumber)],
                               j - 1, nd)

\* assert(GetInternalKey(&input, &g.smallest) && GetInternalKey(&input, &g.largest)):
\* not evaluated at all under NDEBUG.
FenceRange(st, nd) ==
  IF nd.ndebug THEN st
  ELSE LET s == GetInternalKey(st.input) IN
       IF ~s.ok THEN [st EXCEPT !.aborted = TRUE, !.input = s.rest]
       ELSE LET l == GetInternalKey(s.rest) IN
            [st EXCEPT !.aborted = ~l.ok, !.input = l.rest,
                       !.g.smallest = s.val, !.g.largest = l.val]

FenceHead(st) ==
  LET lv == GetLevel(st.input)
      ns == GetVarint64(lv.rest)
      fk == GetInternalKey(ns.rest)
  IN [ok |-> lv.ok /\ ns.ok /\ fk.ok,
      st |-> [st EXCEPT !.input = fk.rest, !.g.level = lv.val,
                        !.g.number_segments = ns.val, !.g.fence_key = fk.val,
                        !.g.files = <<>>]]

FileFields(input) ==
  LET lv == GetLevel(input)
      nu == GetVarint64(lv.rest)
      fs == GetVarint64(nu.rest)
      sm == GetInternalKey(fs.rest)
      la == GetInternalKey(sm.rest)
  IN [ok |-> lv.ok /\ nu.ok /\ fs.ok /\ sm.ok /\ la.ok, level |-> lv.val,
      f |-> FileMeta(nu.val, fs.val, sm.val, la.val), rest |-> la.rest]

LevelAndNumber(input) ==
  LET lv == GetLevel(input)
      nu == GetVarint64(lv.rest)
  IN [ok |-> lv.ok /\ nu.ok, level |-> lv.val, number |-> nu.val, rest |-> nu.rest]

LevelAndKey(input) ==
  LET lv == GetLevel(input)
      k == GetInternalKey(lv.rest)
  IN [ok |-> lv.ok /\ k.ok, level |-> lv.val, key |-> k.val, rest |-> k.rest]

\* The read is not checked: a missing number leaves the field as it was and
\* sets the flag.
ScalarUnchecked(st, field, flag, what) ==
  LET v == GetVarint64(st.input) IN
  [st EXCEPT !.input = v.rest, !.e[field] = IF v.ok THEN v.val ELSE @,
             !.e[flag] = TRUE]

\* case kLogNumber, kPrevLogNumber, kNextFileNumber, kLastSequence
Scalar(st, field, flag, what) ==
  LET v == GetVarint64(st.input) IN
  IF v.ok THEN [st EXCEPT !.input = v.rest, !.e[field] = v.val, !.e[flag] = TRUE]
          ELSE [st EXCEPT !.msg = what]

\* One turn of the switch (tag), the tag read and st.input behind it.
DecodeEntry(tag, st, nd) ==
  CASE tag = kComparator ->
         LET s == GetLengthPrefixedSlice(st.input) IN
         IF s.ok THEN [st EXCEPT !.input = s.rest, !.e.comparator_ = s.val,
                                 !.e.has_comparator_ = TRUE]
                 ELSE [st EXCEPT !.msg = "comparator name"]
    [] tag = kLogNumber ->
         Scalar(st, "log_number_", "has_log_number_", "log number")
    [] tag = kPrevLogNumber ->
         Scalar(st, "prev_log_number_", "has_prev_log_number_", "previous log number")
    [] tag = kNextFileNumber ->
         Scalar(st, "next_file_number_", "has_next_file_number_", "next file number")
    [] tag = kLastSequence ->
         Scalar(st, "last_sequence_", "has_last_sequence_", "last sequence number")
    [] tag = kCompactPointer ->
         LET r == LevelAndKey(st.input) IN
         IF r.ok THEN [st EXCEPT !.input = r.rest,
                         !.e.compact_pointers_ = Append(@, <<r.level, r.key>>)]
                 ELSE [st EXCEPT !.msg = "compaction pointer"]
    [] tag = kDeletedFile ->
         LET r == LevelAndNumber(st.input) IN
         IF r.ok THEN [st EXCEPT !.input = r.rest,
                         !.e.deleted_files_ = @ \cup {<<r.level, r.number>>}]
                 ELSE [st EXCEPT !.msg = "deleted file"]
    [] tag = kDeletedFence ->
         LET r == LevelAndKey(st.input) IN
         IF r.ok
           THEN LET ins == InsertDeletedFence(st.e.deleted_fences_,
                                              <<r.level, r.key>>, nd.ub)
                IN [st EXCEPT !.input = r.rest, !.aborted = ins.crashed,
                              !.e.deleted_fences_ = ins.set]
           ELSE [st EXCEPT !.msg = "deleted guard"]
    [] tag = kDeletedSentinelFile ->
         LET r == LevelAndNumber(st.input) IN
         IF r.ok THEN [st EXCEPT !.input = r.rest,
                         !.e.deleted_sentinel_files_ = @ \cup {<<r.level, r.number>>}]
                 ELSE [st EXCEPT !.msg = "deleted sentinel file"]
    [] tag = kNewFile ->
         LET r == FileFields(st.input) IN
         IF r.ok THEN [st EXCEPT !.input = r.rest,
                         !.e.new_files_ = Append(@, <<r.level, r.f>>)]
                 ELSE [st EXCEPT !.msg = "new-file entry"]
    [] tag = kNewSentinelFile ->
         LET r == LevelAndNumber(st.input) IN
         IF r.ok THEN [st EXCEPT !.input = r.rest, !.fnumber = r.number,
                         !.e.sentinel_file_nos_[r.level] = Append(@, r.number)]
                 ELSE [st EXCEPT !.msg = "new-sentinel-file entry"]
    [] tag = kNewSentinelFileNo ->
         LET r == FileFields(st.input) IN
         IF r.ok THEN [st EXCEPT !.input = r.rest,
                         !.e.new_files_ = Append(@, <<r.level, r.f>>)]
                 ELSE [st EXCEPT !.msg = "new-sentinel-file entry"]
    [] tag = kNewFence ->
         LET h == FenceHead(st) IN
         IF h.ok
           THEN LET s == IF h.st.g.number_segments > 0
                           THEN LET rg == FenceRange(h.st, nd) IN
                                FenceFiles(rg, h.st.g.number_segments, nd)
                           ELSE h.st
                IN IF s.aborted THEN s
                   ELSE [s EXCEPT !.e.new_fences_[s.g.level] = Append(@, s.g)]
           ELSE [st EXCEPT !.msg = "new-fence entry"]
    [] tag = kNewCompleteFence ->
         LET h == FenceHead(st) IN
         IF h.ok
           THEN LET s == IF h.st.g.number_segments > 0
                           THEN FenceRange(h.st, nd) ELSE h.st
                IN IF s.aborted THEN s
                   ELSE [s EXCEPT !.e.new_complete_fences_[s.g.level] = Append(@, s.g)]
           ELSE [st EXCEPT !.msg = "new-complete-fence entry"]
    [] OTHER -> [st EXCEPT !.msg = "unknown tag"]

\* while (msg == nullptr && GetVarint32(&input, &tag))
RECURSIVE DecodeLoop(_, _)
DecodeLoop(st, nd) ==
  IF st.msg # "" \/ st.aborted THEN st
  ELSE LET t == GetVarint32(st.input) IN
       IF ~t.ok THEN st
       ELSE DecodeLoop(DecodeEntry(t.val, [st EXCEPT !.input = t.rest], nd), nd)

\* The object after the call and what the call returned: "OK", "Corruption",
\* or "abort" when the process ended inside it.
DecodeResult(st) ==
  IF st.aborted THEN [e |-> st.e, msg |-> "", status |-> "abort"]
  ELSE IF st.msg = "" /\ st.input # <<>>
         THEN [e |-> st.e, msg |-> "invalid tag", status |-> "Corruption"]
         ELSE [e |-> st.e, msg |-> st.msg,
               status |-> IF st.msg # "" THEN "Corruption" ELSE "OK"]

DecodeFrom(e, src, nd) == DecodeResult(DecodeLoop(DecodeStart(e, src, nd), nd))

-----------------------------------------------------------------------------
(* The VersionEdit specification: an edit is built by the mutators, encoded, *)
(* and the buffer or a prefix of it decoded into a fresh VersionEdit.        *)

\* The arguments the mutators are called with. An InternalKey handed to a
\* mutator is never empty (InternalKey::Encode asserts it); 300 takes a
\* two-byte varint; kNumLevels is a level the decoder refuses, which the
\* mutators that do not assert on the level take like any other.
Keys == {<<1>>, <<1, 2>>}
ComparatorInputs == {<<>>, <<99>>}
LogNumberInputs == {0, 300}
PrevLogNumberInputs == {300}
NextFileInputs == {0}
LastSequenceInputs == {300}
CompactPointerInputs == {<<0, <<1>>>>, <<kNumLevels, <<1, 2>>>>}
AddFileInputs == {<<kNumLevels - 1, <<1, 2>>>>, <<kNumLevels, <<1>>>>}
RemoveFileInputs == {<<kNumLevels - 1, 0>>, <<0, 300>>, <<kNumLevels, 0>>}
AddFenceInputs == {<<0, <<1>>>>, <<kNumLevels - 1, <<1, 2>>>>}
AddCompleteFenceInputs == {<<0, <<1>>>>}
AddFenceWithFilesInputs == {<<0, <<1, 2>>, <<300>>>>}
DeleteFenceInputs ==
  {<<0, <<1>>>>, <<0, <<1, 2>>>>, <<kNumLevels - 1, <<1>>>>, <<kNumLevels, <<1, 2>>>>}
SentinelInputs == {<<0, <<1>>>>}
SentinelFileNoInputs == {<<0, 300>>}
DeleteSentinelFileInputs == {<<kNumLevels - 1, 0>>, <<0, 300>>}
\* A fence with one file, and the entries that carry it with its true segment
\* count in the layout DecodeFrom reads: tag, level, count, fence key, then
\* smallest and largest, then (new fence only) per file the tag given and the
\* file number.
FenceWithFile ==
  [NewFenceMeta EXCEPT !.level = 0, !.number_segments = 1, !.fence_key = <<1>>,
                       !.smallest = <<1>>, !.largest = <<1, 2>>, !.files = <<300>>]
FenceHeadBytes(tag, f) ==
  PutVarint(tag) \o PutVarint(f.level) \o PutVarint(f.number_segments)
    \o PutLengthPrefixedSlice(f.fence_key)
FenceRangeBytes(f) ==
  PutLengthPrefixedSlice(f.smallest) \o PutLengthPrefixedSlice(f.largest)
FenceFileBytes(tag2, f) ==
  Concat([i \in 1 .. Len(f.files) |-> PutVarint(tag2) \o PutVarint(f.files[i])])
WrongTagInputs ==
  {FenceHeadBytes(kNewFence, FenceWithFile) \o FenceRangeBytes(FenceWithFile)
     \o FenceFileBytes(kNewFile, FenceWithFile)}
ForeignInputs ==
  {FenceHeadBytes(kNewFence, FenceWithFile) \o FenceRangeBytes(FenceWithFile)
     \o FenceFileBytes(kFileInsideFence, FenceWithFile),
   FenceHeadBytes(kNewCompleteFence, FenceWithFile) \o FenceRangeBytes(FenceWithFile)}
  \cup WrongTagInputs
\* what an uninitialised uint32_t / uint64_t local may hold
Junk == {0, kFileInsideFence}

InitBatchVars ==
  /\ hash = <<>>
  /\ rep = <<>> /\ recs = <<>> /\ events = {}
  /\ op = [name |-> "none"] /\ chosen = <<>>

InitEdit ==
  /\ ndebug \in BOOLEAN
  /\ pc = "build"
  /\ edit = NewVersionEdit /\ ecalls = <<>> /\ ecrashed = FALSE
  /\ buf = <<>> /\ cut = 0
  /\ dec = NewVersionEdit /\ dstatus = "none"
  /\ InitBatchVars

Mutate(e, call) ==
  /\ pc = "build" /\ ~ecrashed /\ Len(ecalls) < MaxOps
  /\ edit' = e
  /\ ecalls' = Append(ecalls, call)
  /\ UNCHANGED <<ndebug, pc, ecrashed, buf, cut, dec, dstatus, batchVars>>

DoSetComparatorName ==
  \E n \in ComparatorInputs :
    Mutate(SetComparatorName(edit, n), <<"SetComparatorName", n>>)
DoSetLogNumber ==
  \E n \in LogNumberInputs : Mutate(SetLogNumber(edit, n), <<"SetLogNumber", n>>)
DoSetPrevLogNumber ==
  \E n \in PrevLogNumberInputs :
    Mutate(SetPrevLogNumber(edit, n), <<"SetPrevLogNumber", n>>)
DoSetNextFile ==
  \E n \in NextFileInputs : Mutate(SetNextFile(edit, n), <<"SetNextFile", n>>)
DoSetLastSequence ==
  \E n \in LastSequenceInputs :
    Mutate(SetLastSequence(edit, n), <<"SetLastSequence", n>>)
DoSetCompactPointer ==
  \E x \in CompactPointerInputs :
    Mutate(SetCompactPointer(edit, x[1], x[2]), <<"SetCompactPointer", x[1], x[2]>>)
DoAddFile ==
  \E x \in AddFileInputs :
    Mutate(AddFile(edit, x[1], 300, 0, <<1>>, x[2]), <<"AddFile", x[1], x[2]>>)
DoRemoveFile ==
  \E x \in RemoveFileInputs :
    Mutate(RemoveFile(edit, x[1], x[2]), <<"RemoveFile", x[1], x[2]>>)
DoAddFence ==
  \E x \in AddFenceInputs :
    Mutate(AddFence(edit, x[1], x[2]), <<"AddFence", x[1], x[2]>>)
DoAddCompleteFence ==
  \E x \in AddCompleteFenceInputs :
    Mutate(AddCompleteFence(edit, x[1], x[2]), <<"AddCompleteFence", x[1], x[2]>>)
DoAddFenceWithFiles ==
  \E x \in AddFenceWithFilesInputs :
    Mutate(AddFenceWithFiles(edit, x[1], Len(x[3]), x[2], <<1>>, x[2], x[3]),
           <<"AddFenceWithFiles", x[1], x[2], x[3]>>)
DoAddSentinelFile ==
  \E x \in SentinelInputs :
    Mutate(AddSentinelFile(edit, x[1], 100, 300, x[2], <<1>>, 5, 1),
           <<"AddSentinelFile", x[1], x[2]>>)
DoAddFileToSentinel ==
  \E x \in SentinelInputs :
    Mutate(AddFileToSentinel(edit, FileMeta(5, 300, <<1>>, x[2]), x[1]),
           <<"AddFileToSentinel", x[1], x[2]>>)
DoAddSentinelFileNo ==
  \E x \in SentinelFileNoInputs :
    Mutate(AddSentinelFileNo(edit, x[1], x[2]), <<"AddSentinelFileNo", x[1], x[2]>>)
DoDeleteSentinelFile ==
  \E x \in DeleteSentinelFileInputs :
    Mutate(DeleteSentinelFile(edit, x[1], x[2]), <<"DeleteSentinelFile", x[1], x[2]>>)

DoDeleteFence ==
  /\ pc = "build" /\ ~ecrashed /\ Len(ecalls) < MaxOps
  /\ \E x \in DeleteFenceInputs, ub \in UBOutcomes :
       \E r \in {DeleteFence(edit, x[1], x[2], ub)} :
         /\ edit' = r.e
         /\ ecrashed' = r.crashed
         /\ ecalls' = Append(ecalls, <<"DeleteFence", x[1], x[2]>>)
  /\ UNCHANGED <<ndebug, pc, buf, cut, dec, dstatus, batchVars>>

\* std::string dst; edit.EncodeTo(&dst);
DoEncodeTo ==
  /\ pc = "build" /\ ~ecrashed
  /\ buf' = EncodeTo(edit, <<>>)
  /\ pc' = "encoded"
  /\ UNCHANGED <<ndebug, edit, ecalls, ecrashed, cut, dec, dstatus, batchVars>>

\* VersionEdit dec; dec.DecodeFrom(Slice(dst.data(), n));
DoDecodeFrom ==
  /\ pc = "encoded"
  /\ \E n \in 0 .. Len(buf), t \in Junk, ub \in UBOutcomes :
       \E r \in {DecodeFrom(NewVersionEdit, Take(buf, n),
                [ndebug |-> ndebug, tag2 |-> t, fnumber |-> t, ub |-> ub])} :
         /\ cut' = n
         /\ dec' = r.e
         /\ dstatus' = r.status
  /\ pc' = "decoded"
  /\ UNCHANGED <<ndebug, edit, ecalls, ecrashed, buf, batchVars>>

\* VersionEdit d(edit); d.DecodeFrom(dst): the call made on an object that
\* holds what the mutators put there.
DoDecodeFromUsed ==
  /\ pc = "encoded"
  /\ \E t \in Junk, ub \in UBOutcomes :
       \E r \in {DecodeFrom(edit, buf,
                [ndebug |-> ndebug, tag2 |-> t, fnumber |-> t, ub |-> ub])} :
         /\ dec' = r.e
         /\ dstatus' = r.status
  /\ cut' = Len(buf)
  /\ pc' = "redecoded"
  /\ UNCHANGED <<ndebug, edit, ecalls, ecrashed, buf, batchVars>>

\* VersionEdit dec; dec.DecodeFrom(Slice(src.data(), n)), src being bytes that
\* EncodeTo did not write.
DoDecodeForeign ==
  /\ pc = "build" /\ ecalls = <<>>
  /\ \E src \in ForeignInputs, t \in Junk, ub \in UBOutcomes :
       \E n \in 1 .. Len(src) :
         \E r \in {DecodeFrom(NewVersionEdit, Take(src, n),
                  [ndebug |-> ndebug, tag2 |-> t, fnumber |-> t, ub |-> ub])} :
           /\ buf' = src
           /\ cut' = n
           /\ dec' = r.e
           /\ dstatus' = r.status
  /\ pc' = "foreign"
  /\ UNCHANGED <<ndebug, edit, ecalls, ecrashed, batchVars>>

NextEdit ==
  \/ DoSetComparatorName \/ DoSetLogNumber \/ DoSetPrevLogNumber
  \/ DoSetNextFile \/ DoSetLastSequence \/ DoSetCompactPointer
  \/ DoAddFile \/ DoAddFileToSentinel \/ DoAddSentinelFile
  \/ DoAddSentinelFileNo \/ DoAddFence \/ DoAddCompleteFence
  \/ DoAddFenceWithFiles \/ DoRemoveFile \/ DoDeleteFence
  \/ DoDeleteSentinelFile \/ DoEncodeTo \/ DoDecodeFrom \/ DoDecodeFromUsed
  \/ DoDecodeForeign

SpecEdit == InitEdit /\ [][NextEdit]_vars

-----------------------------------------------------------------------------
(* Properties of the VersionEdit specification. *)

Range(seq) == {seq[i] : i \in 1 .. Len(seq)}

\* The offsets of buf at which an entry written by EncodeTo ends.
RECURSIVE Boundaries(_, _)
Boundaries(entries, at) ==
  IF entries = <<>> THEN {at}
  ELSE {at} \cup Boundaries(Tail(entries), at + Len(Head(entries)))

EntryBoundaries(e) == Boundaries(EncodedEntries(e), 0)

FenceView(f) ==
  [fence_key |-> f.fence_key, number_segments |-> f.number_segments,
   files |-> f.files]

\* Every populated field of d equals that of e: presence and value of the
\* optional scalars, (level, item) membership of the lists and sets.
SameEdit(e, d) ==
  /\ d.has_comparator_ = e.has_comparator_
  /\ e.has_comparator_ => d.comparator_ = e.comparator_
  /\ d.has_log_number_ = e.has_log_number_
  /\ e.has_log_number_ => d.log_number_ = e.log_number_
  /\ d.has_prev_log_number_ = e.has_prev_log_number_
  /\ e.has_prev_log_number_ => d.prev_log_number_ = e.prev_log_number_
  /\ d.has_next_file_number_ = e.has_next_file_number_
  /\ e.has_next_file_number_ => d.next_file_number_ = e.next_file_number_
  /\ d.has_last_sequence_ = e.has_last_sequence_
  /\ e.has_last_sequence_ => d.last_sequence_ = e.last_sequence_
  /\ Range(d.compact_pointers_) = Range(e.compact_pointers_)
  /\ d.deleted_files_ = e.deleted_files_
  /\ Range(d.new_files_) = Range(e.new_files_)
  /\ Range(d.deleted_fences_) = Range(e.deleted_fences_)
  /\ d.deleted_sentinel_files_ = e.deleted_sentinel_files_
  /\ \A l \in Levels :
       /\ Range(d.sentinel_files_[l]) = Range(e.sentinel_files_[l])
       /\ Range(d.sentinel_file_nos_[l]) = Range(e.sentinel_file_nos_[l])
       /\ {FenceView(f) : f \in Range(d.new_fences_[l])}
            = {FenceView(f) : f \in Range(e.new_fences_[l])}
       /\ {FenceView(f) : f \in Range(d.new_complete_fences_[l])}
            = {FenceView(f) : f \in Range(e.new_complete_fences_[l])}

DecodedWhole == pc = "decoded" /\ cut = Len(buf)
DecodedPrefix == pc = "decoded" /\ 0 < cut /\ cut < Len(buf)

\* The calls made so far gave no level but a level of the tree.
LevelsInRange ==
  \A i \in 1 .. Len(ecalls) :
    Len(ecalls[i]) >= 3 => ecalls[i][2] \in Levels

\* C1: whatever the mutators built (here with every level a level of the
\* tree), decoding the whole encoded buffer succeeds and gives an edit whose
\* every populated field equals the original's.
C1_RoundTrip ==
  (DecodedWhole /\ LevelsInRange) => dstatus = "OK" /\ SameEdit(edit, dec)

TwoDeletedFencesOfOneLevel(e) ==
  \E i, j \in 1 .. Len(e.deleted_fences_) :
    i # j /\ e.deleted_fences_[i][1] = e.deleted_fences_[j][1]

CallsAre(name, n) ==
  /\ Len(ecalls) = n
  /\ \A i \in 1 .. n : ecalls[i] = ecalls[1] /\ ecalls[i][1] = name

\* C8: AddFence twice with one (level, key) decodes to two new-fence entries
\* with that key; DeleteFence twice with one (level, key) gives a single
\* deleted-fence entry, in the edit and after the round trip.
C8_FenceDuplicates ==
  /\ (CallsAre("AddFence", 2) /\ DecodedWhole) =>
        /\ dstatus = "OK"
        /\ Len(dec.new_fences_[ecalls[1][2]]) = 2
        /\ \A f \in Range(dec.new_fences_[ecalls[1][2]]) : f.fence_key = ecalls[1][3]
  /\ CallsAre("DeleteFence", 2) =>
        /\ ~ecrashed
        /\ edit.deleted_fences_ = << <<ecalls[1][2], ecalls[1][3]>> >>
        /\ DecodedWhole => dstatus = "OK" /\ dec.deleted_fences_ = edit.deleted_fences_

\* The levels of the entries e holds.
LevelsHeld(e) ==
  {p[1] : p \in Range(e.compact_pointers_)} \cup {p[1] : p \in e.deleted_files_}
  \cup {p[1] : p \in Range(e.new_files_)} \cup {p[1] : p \in Range(e.deleted_fences_)}
  \cup {p[1] : p \in e.deleted_sentinel_files_}
  \cup UNION {{f.level : f \in Range(e.new_fences_[l])} : l \in Levels}
  \cup UNION {{f.level : f \in Range(e.new_complete_fences_[l])} : l \in Levels}

\* DecodeFrom was handed the whole of a buffer one of whose entries carries a
\* level that is no level of the tree.
DecodedBadLevel == pc \in {"decoded", "redecoded"} /\ cut = Len(buf) /\ ~LevelsInRange

FenceFilesHeld(e) ==
  UNION {Range(f.files) : f \in UNION {Range(e.new_fences_[l]) \cup
                                       Range(e.new_complete_fences_[l]) : l \in Levels}}

\* DecodeFrom was handed a fence entry of a nonzero segment count whose nested
\* fields are cut short, missing, or carry a tag that is not kFileInsideFence.
MalformedNested ==
  pc = "foreign" /\ (cut < Len(buf) \/ buf \in WrongTagInputs)

\* C13: on such an entry DecodeFrom returns Corruption; it never returns OK
\* with a fence whose file list holds a value that was not read from the
\* input, and never ends the process.
C13_MalformedNestedReported ==
  /\ MalformedNested => dstatus = "Corruption"
  /\ pc = "foreign" => dstatus # "abort"
  /\ (pc = "foreign" /\ dstatus = "OK") =>
        FenceFilesHeld(dec) \subseteq Range(FenceWithFile.files)

-----------------------------------------------------------------------------
(* WriteBatch: rep_ is an 8-byte sequence number, a 4-byte count, then the  *)
(* records.                                                                 *)

kHeader == 12

\* enum ValueType (db/dbformat.h)
kTypeDeletion == 0
kTypeValue == 1
kTypeFence == 2

\* util/coding: little-endian fixed-width integers.
RECURSIVE EncodeFixed(_, _)
EncodeFixed(v, n) ==
  IF n = 0 THEN <<>> ELSE <<v % 256>> \o EncodeFixed(v \div 256, n - 1)

RECURSIVE DecodeFixed(_)
DecodeFixed(bytes) ==
  IF bytes = <<>> THEN 0 ELSE Head(bytes) + 256 * DecodeFixed(Tail(bytes))

\* WriteBatch::Clear
ClearBatch == [i \in 1 .. kHeader |-> 0]

Count(b) == DecodeFixed(SubSeq(b, 9, 12))
SetCount(b, n) == Take(b, 8) \o EncodeFixed(n, 4) \o Drop(b, 12)
\* DecodeFixed64(rep_.data()): on a buffer of fewer than 8 bytes the read runs
\* past the end; Iterate rejects such a buffer before any handler sees the
\* number, which is taken as if zeros followed.
Sequence(b) == DecodeFixed([i \in 1 .. 8 |-> IF i <= Len(b) THEN b[i] ELSE 0])
SetSequence(b, seq) == EncodeFixed(seq, 8) \o Drop(b, 8)

Put(b, key, value) ==
  SetCount(b, Count(b) + 1) \o <<kTypeValue>>
    \o PutLengthPrefixedSlice(key) \o PutLengthPrefixedSlice(value)

PutFenceNoCount(b, key, level) ==
  b \o <<kTypeFence>> \o PutLengthPrefixedSlice(key) \o PutVarint(level)

PutFence(b, key, level) ==
  SetCount(b, Count(b) + 1) \o <<kTypeFence>>
    \o PutLengthPrefixedSlice(key) \o PutVarint(level)

Delete(b, key) ==
  SetCount(b, Count(b) + 1) \o <<kTypeDeletion>> \o PutLengthPrefixedSlice(key)

SetContents(b, contents) == contents

AppendKeepCount(dst, src) == dst \o Drop(src, kHeader)

\* WriteBatchInternal::Append (WriteBatch::Append calls it)
AppendBatch(dst, src) ==
  SetCount(dst, Count(dst) + Count(src)) \o Drop(src, kHeader)

\* The records as the handler sees them.
PutRec(key, value) == [kind |-> "Put", key |-> key, value |-> value]
DeleteRec(key) == [kind |-> "Delete", key |-> key]
FenceRec(key, level) == [kind |-> "Fence", key |-> key, level |-> level]

-----------------------------------------------------------------------------
(* The handlers. *)

\* A WriteBatch::Handler whose three methods do nothing.
NewHandler == [handler |-> "Handler", aborted |-> FALSE]

\* MemTableInserter: mem is what mem_->Add received, in order.
NewMemTableInserter(sequence, nd) ==
  [handler |-> "MemTableInserter", sequence_ |-> sequence, mem |-> <<>>,
   ndebug |-> nd, aborted |-> FALSE]

MTI_Put(h, key, value) ==
  [h EXCEPT !.mem = Append(@, [seq |-> h.sequence_, type |-> kTypeValue,
                               key |-> key, value |-> value]),
            !.sequence_ = @ + 1]

MTI_Delete(h, key) ==
  [h EXCEPT !.mem = Append(@, [seq |-> h.sequence_, type |-> kTypeDeletion,
                               key |-> key, value |-> <<>>]),
            !.sequence_ = @ + 1]

MTI_HandleFenceKeepSequence(h, key, level) ==
  IF ~h.ndebug /\ ~(level < kNumLevels) THEN [h EXCEPT !.aborted = TRUE] ELSE h

\* The FenceMetaData it builds is dropped when the call returns.
MTI_HandleFence(h, key, level) ==
  IF ~h.ndebug /\ ~(level < kNumLevels)
    THEN [h EXCEPT !.aborted = TRUE]
    ELSE [h EXCEPT !.sequence_ = @ + 1]

\* FenceInserter
top_level_bits == 27
bit_decrement == 2

RECURSIVE Pow2(_)
Pow2(n) == IF n = 0 THEN 1 ELSE 2 * Pow2(n - 1)

\* FenceInserter(): picked holds, per Put handled, the key and the shallowest
\* level found for it, kNumLevels when none (history).
NewFenceInserter(sequence, new_batch, nd) ==
  [handler |-> "FenceInserter", sequence_ |-> sequence, bit_mask |-> 0,
   num_guards |-> [l \in Levels |-> 0], new_batch |-> new_batch,
   picked |-> <<>>, ndebug |-> nd, aborted |-> FALSE]

\* The mask of the top level at every level: num_bits is not used.
set_maskTopLevel(num_bits) == Pow2(top_level_bits) - 1

\* set_mask: assert(num_bits > 0 && num_bits < 32); bit_mask = (1 << num_bits) - 1
set_mask(num_bits) == Pow2(num_bits) - 1

\* for (i < kNumLevels) { set_mask(num_bits); if ((hash_result & bit_mask) ==
\* bit_mask) break; num_bits -= bit_decrement; }: the level the loop stops at
\* (kNumLevels when it runs out) and the mask it leaves.
RECURSIVE FindGuardLevel(_, _, _, _)
FindGuardLevel(hash_result, i, num_bits, bit_mask) ==
  IF i >= kNumLevels THEN [level |-> kNumLevels, bit_mask |-> bit_mask]
  ELSE LET m == set_mask(num_bits) IN
       IF hash_result % (m + 1) = m
         THEN [level |-> i, bit_mask |-> m]
         ELSE FindGuardLevel(hash_result, i + 1, num_bits - bit_decrement, m)

\* for (j = i; j < kNumLevels; j++) { new_batch->PutFence(key, j); num_guards[j]++; }
RECURSIVE InsertGuards(_, _, _)
InsertGuards(h, key, j) ==
  IF j >= kNumLevels THEN h
  ELSE InsertGuards([h EXCEPT !.new_batch = PutFence(@, key, j),
                              !.num_guards[j] = @ + 1], key, j + 1)

\* The width of a mask 2^n - 1.
RECURSIVE BitsOf(_)
BitsOf(mask) == IF mask = 0 THEN 0 ELSE 1 + BitsOf(mask \div 2)

\* num_bits kept from one Put to the next instead of starting at top_level_bits.
FI_PutStickyBits(h, hash_result, key, value) ==
  LET start == IF h.bit_mask = 0 THEN top_level_bits ELSE BitsOf(h.bit_mask)
      r == FindGuardLevel(hash_result, 0, start, h.bit_mask)
      g == InsertGuards(h, key, r.level)
  IN [g EXCEPT !.bit_mask = r.bit_mask, !.sequence_ = @ + 1,
               !.picked = Append(@, <<key, r.level>>)]

\* Only the level found gets the fence.
FI_PutOneLevel(h, hash_result, key, value) ==
  LET r == FindGuardLevel(hash_result, 0, top_level_bits, h.bit_mask)
      g == IF r.level < kNumLevels
             THEN [h EXCEPT !.new_batch = PutFence(@, key, r.level),
                            !.num_guards[r.level] = @ + 1]
             ELSE h
  IN [g EXCEPT !.bit_mask = r.bit_mask, !.sequence_ = @ + 1,
               !.picked = Append(@, <<key, r.level>>)]

\* FenceInserter::Put, hash_result being MurmurHash3_x86_32 of the key.
FI_Put(h, hash_result, key, value) ==
  LET r == FindGuardLevel(hash_result, 0, top_level_bits, h.bit_mask)
      g == InsertGuards(h, key, r.level)
  IN [g EXCEPT !.bit_mask = r.bit_mask, !.sequence_ = @ + 1,
               !.picked = Append(@, <<key, r.level>>)]

FI_Delete(h, key) == [h EXCEPT !.sequence_ = @ + 1]

\* assert(0)
FI_HandleFence(h, key, level) == IF h.ndebug THEN h ELSE [h EXCEPT !.aborted = TRUE]

\* The virtual calls of WriteBatch::Handler.
HandlerPut(h, hashes, key, value) ==
  CASE h.handler = "MemTableInserter" -> MTI_Put(h, key, value)
    [] h.handler = "FenceInserter" -> FI_Put(h, hashes[key], key, value)
    [] OTHER -> h
HandlerDelete(h, key) ==
  CASE h.handler = "MemTableInserter" -> MTI_Delete(h, key)
    [] h.handler = "FenceInserter" -> FI_Delete(h, key)
    [] OTHER -> h
HandlerHandleFence(h, key, level) ==
  CASE h.handler = "MemTableInserter" -> MTI_HandleFence(h, key, level)
    [] h.handler = "FenceInserter" -> FI_HandleFence(h, key, level)
    [] OTHER -> h

-----------------------------------------------------------------------------
(* WriteBatch::Iterate and its callers. *)

Bad(input, h, msg) == [ok |-> FALSE, msg |-> msg, input |-> input, h |-> h, call |-> <<>>]

\* default: break; the unknown tag is passed over and the loop goes on.
IterateRecordSkipUnknown(tag, input, h, hashes) ==
  CASE tag = kTypeValue ->
         LET k == GetLengthPrefixedSlice(input)
             v == GetLengthPrefixedSlice(k.rest)
         IN IF k.ok /\ v.ok
              THEN [ok |-> TRUE, msg |-> "", input |-> v.rest,
                    h |-> HandlerPut(h, hashes, k.val, v.val),
                    call |-> <<PutRec(k.val, v.val)>>]
              ELSE Bad(input, h, "bad WriteBatch Put")
    [] tag = kTypeDeletion ->
         LET k == GetLengthPrefixedSlice(input) IN
         IF k.ok
           THEN [ok |-> TRUE, msg |-> "", input |-> k.rest,
                 h |-> HandlerDelete(h, k.val), call |-> <<DeleteRec(k.val)>>]
           ELSE Bad(input, h, "bad WriteBatch Delete")
    [] tag = kTypeFence ->
         LET k == GetLengthPrefixedSlice(input)
             l == GetVarint32(k.rest)
         IN IF k.ok /\ l.ok
              THEN [ok |-> TRUE, msg |-> "", input |-> l.rest,
                    h |-> HandlerHandleFence(h, k.val, l.val),
                    call |-> <<FenceRec(k.val, l.val)>>]
              ELSE Bad(input, h, "unknown WriteBatch tag")
    [] OTHER -> [ok |-> TRUE, msg |-> "", input |-> input, h |-> h, call |-> <<>>]

\* One turn of the switch (tag), the tag byte removed from input: the handler
\* call it makes (call is the history of it) or the Corruption it returns.
IterateRecord(tag, input, h, hashes) ==
  CASE tag = kTypeValue ->
         LET k == GetLengthPrefixedSlice(input)
             v == GetLengthPrefixedSlice(k.rest)
         IN IF k.ok /\ v.ok
              THEN [ok |-> TRUE, msg |-> "", input |-> v.rest,
                    h |-> HandlerPut(h, hashes, k.val, v.val),
                    call |-> <<PutRec(k.val, v.val)>>]
              ELSE Bad(input, h, "bad WriteBatch Put")
    [] tag = kTypeDeletion ->
         LET k == GetLengthPrefixedSlice(input) IN
         IF k.ok
           THEN [ok |-> TRUE, msg |-> "", input |-> k.rest,
                 h |-> HandlerDelete(h, k.val), call |-> <<DeleteRec(k.val)>>]
           ELSE Bad(input, h, "bad WriteBatch Delete")
    [] tag = kTypeFence ->
         LET k == GetLengthPrefixedSlice(input)
             l == GetVarint32(k.rest)
         IN IF k.ok /\ l.ok
              THEN [ok |-> TRUE, msg |-> "", input |-> l.rest,
                    h |-> HandlerHandleFence(h, k.val, l.val),
                    call |-> <<FenceRec(k.val, l.val)>>]
              ELSE Bad(input, h, "unknown WriteBatch tag")
    [] OTHER -> Bad(input, h, "unknown WriteBatch tag")

\* while (!input.empty()) { found++; ... }
RECURSIVE IterateLoop(_, _, _, _, _)
IterateLoop(input, found, calls, h, hashes) ==
  IF input = <<>> \/ h.aborted
    THEN [msg |-> "", found |-> found, calls |-> calls, h |-> h]
    ELSE LET r == IterateRecord(Head(input), Tail(input), h, hashes) IN
         IF r.ok
           THEN IterateLoop(r.input, found + 1, calls \o r.call, r.h, hashes)
           ELSE [msg |-> r.msg, found |-> found + 1, calls |-> calls, h |-> r.h]

\* The count of the header is not compared with the records found.
FinishNoCountCheck(b, r) ==
  [status |-> IF r.h.aborted THEN "abort"
              ELSE IF r.msg # "" THEN "Corruption" ELSE "OK",
   msg |-> IF r.h.aborted THEN "" ELSE r.msg,
   calls |-> r.calls, h |-> r.h]

\* What Iterate returns once the loop is left: the Corruption of the loop, or
\* the comparison of found with the count of the header.
Finish(b, r) ==
  [status |-> IF r.h.aborted THEN "abort"
              ELSE IF r.msg # "" THEN "Corruption"
              ELSE IF r.found # Count(b) THEN "Corruption"
              ELSE "OK",
   msg |-> IF r.h.aborted THEN ""
           ELSE IF r.msg # "" THEN r.msg
           ELSE IF r.found # Count(b) THEN "WriteBatch has wrong count"
           ELSE "",
   calls |-> r.calls, h |-> r.h]

\* WriteBatch::Iterate with handler h: the status it returns ("abort" when the
\* handler ended the process), the handler calls it made, the handler after.
Iterate(b, h, hashes) ==
  IF Len(b) < kHeader
    THEN [status |-> "Corruption", msg |-> "malformed WriteBatch (too small)",
          calls |-> <<>>, h |-> h]
    ELSE Finish(b, IterateLoop(Drop(b, kHeader), 0, <<>>, h, hashes))

\* WriteBatchInternal::InsertInto
InsertInto(b, nd, hashes) ==
  Iterate(b, NewMemTableInserter(Sequence(b), nd), hashes)

\* WriteBatchInternal::SetFences
SetFences(batch, new_batch, nd, hashes) ==
  Iterate(batch, NewFenceInserter(Sequence(batch), new_batch, nd), hashes)

-----------------------------------------------------------------------------
(* The batch specifications. In SpecBatch two batches a and b are built     *)
(* through the API, a is appended to, patched or damaged, and replayed. In  *)
(* SpecGuard batch a is built and handed to SetFences with b as the output  *)
(* batch, several times over.                                               *)

K1 == <<1>>
K2 == <<2, 0>>
BKeys == {K1, K2}
PutInputs == {<<K1, <<>>>>, <<K1, <<7, 7>>>>, <<K2, <<7, 7>>>>}
DeleteInputs == {K2}
\* level 300 takes a two-byte varint and is no level of the tree
FenceInputs == {<<K1, 0>>, <<K2, 300>>}
SequenceInputs == {5}
CountInputs == {0, 2, 256}
\* bytes that are no ValueType
BadTags == {3, 200}
\* 32-bit hash values: low 27 bits set (and bit 30); low 19 bits set; low 15
\* bits set; bit 0 clear
HashInputs == {1207959551, 524287, 32767, 32766}
\* the Puts counted per key
MaxPuts == 2

NoOp == [name |-> "none", status |-> "none"]
Alive == op.status # "abort"
Recs(w) == [i \in 1 .. Len(recs[w]) |-> recs[w][i].r]
RecBound == IF pc = "guard" THEN MaxGuardRecs ELSE MaxRecs

InitBatchCommon ==
  /\ ndebug \in BOOLEAN
  /\ edit = NewVersionEdit /\ ecalls = <<>> /\ ecrashed = FALSE
  /\ buf = <<>> /\ cut = 0 /\ dec = NewVersionEdit /\ dstatus = "none"
  /\ rep = [w \in {"a", "b"} |-> ClearBatch]
  /\ recs = [w \in {"a", "b"} |-> <<>>]
  /\ events = {}
  /\ op = NoOp
  /\ chosen = [k \in BKeys |-> [levels |-> {}, puts |-> 0]]

InitBatch ==
  /\ pc = "batch"
  /\ hash = [k \in BKeys |-> 0]
  /\ InitBatchCommon

InitGuard ==
  /\ pc = "guard"
  /\ hash \in [BKeys -> HashInputs]
  /\ InitBatchCommon

\* One record put into batch a: b2 is rep_ after the call.
Built(b2, r) ==
  /\ Alive /\ events = {} /\ Len(recs.a) < RecBound
  /\ rep' = [rep EXCEPT !.a = b2]
  /\ recs' = [recs EXCEPT !.a = Append(@, [r |-> r, end |-> Len(b2)])]
  /\ op' = NoOp
  /\ UNCHANGED <<ndebug, editVars, hash, events, chosen>>

DoPut == \E kv \in PutInputs :
  Built(Put(rep.a, kv[1], kv[2]), PutRec(kv[1], kv[2]))
DoDelete == \E k \in DeleteInputs : Built(Delete(rep.a, k), DeleteRec(k))
DoPutFence == \E kl \in FenceInputs :
  Built(PutFence(rep.a, kl[1], kl[2]), FenceRec(kl[1], kl[2]))

\* One record put into batch b.
DoBuildB ==
  /\ pc = "batch" /\ Alive /\ events = {} /\ Len(recs.b) < MaxRecsB
  /\ \E r \in {PutRec(K2, <<7, 7>>), DeleteRec(K1), FenceRec(K1, 0)} :
       LET b2 == CASE r.kind = "Put" -> Put(rep.b, r.key, r.value)
                   [] r.kind = "Delete" -> Delete(rep.b, r.key)
                   [] OTHER -> PutFence(rep.b, r.key, r.level)
       IN /\ rep' = [rep EXCEPT !.b = b2]
          /\ recs' = [recs EXCEPT !.b = Append(@, [r |-> r, end |-> Len(b2)])]
  /\ op' = NoOp
  /\ UNCHANGED <<ndebug, editVars, hash, events, chosen>>

\* a.Clear(); b.Clear();
DoClear ==
  /\ Alive /\ (recs.a # <<>> \/ recs.b # <<>> \/ events # {})
  /\ rep' = [w \in {"a", "b"} |-> ClearBatch]
  /\ recs' = [w \in {"a", "b"} |-> <<>>]
  /\ events' = {}
  /\ op' = NoOp
  /\ UNCHANGED <<ndebug, editVars, hash, chosen>>

DoSetSequence ==
  /\ Alive /\ events = {} /\ Sequence(rep.a) = 0
  /\ \E seq \in SequenceInputs : rep' = [rep EXCEPT !.a = SetSequence(@, seq)]
  /\ op' = NoOp
  /\ UNCHANGED <<ndebug, editVars, hash, recs, events, chosen>>

DoSetCount ==
  /\ pc = "batch" /\ Alive /\ events = {}
  /\ Sequence(rep.a) = 0 /\ recs.b = <<>>
  /\ \E n \in CountInputs : rep' = [rep EXCEPT !.a = SetCount(@, n)]
  /\ events' = {[kind |-> "SetCount"]}
  /\ op' = NoOp
  /\ UNCHANGED <<ndebug, editVars, hash, recs, chosen>>

\* a.Append(b): op keeps both batches as they were before the call.
DoAppend ==
  /\ pc = "batch" /\ Alive /\ events = {}
  /\ rep' = [rep EXCEPT !.a = AppendBatch(rep.a, rep.b)]
  /\ recs' = [recs EXCEPT !.a = @ \o
        [i \in 1 .. Len(recs.b) |->
           [r |-> recs.b[i].r, end |-> recs.b[i].end - kHeader + Len(rep.a)]]]
  /\ events' = {[kind |-> "Append", n |-> Len(recs.a)]}
  /\ op' = [name |-> "Append", status |-> "none", before |-> rep]
  /\ UNCHANGED <<ndebug, editVars, hash, chosen>>

\* WriteBatchInternal::SetContents(&a, contents), contents being rep_ of a cut
\* to n bytes: assert(contents.size() >= kHeader).
DoSetContentsCut ==
  /\ pc = "batch" /\ Alive /\ events = {}
  /\ Sequence(rep.a) = 0 /\ recs.b = <<>>
  /\ \E n \in 0 .. (Len(rep.a) - 1) :
       IF n < kHeader /\ ~ndebug
         THEN /\ op' = [name |-> "SetContents", status |-> "abort"]
              /\ UNCHANGED <<rep, events>>
         ELSE /\ rep' = [rep EXCEPT !.a = SetContents(@, Take(rep.a, n))]
              /\ events' = {[kind |-> "cut", at |-> n]}
              /\ op' = NoOp
  /\ UNCHANGED <<ndebug, editVars, hash, recs, chosen>>

\* The same with the tag byte of record i replaced by a byte that is no tag.
DoSetContentsBadTag ==
  /\ pc = "batch" /\ Alive /\ events = {}
  /\ Sequence(rep.a) = 0 /\ recs.b = <<>>
  /\ \E i \in 1 .. Len(recs.a), t \in BadTags :
       LET at == (IF i = 1 THEN kHeader ELSE recs.a[i - 1].end) + 1 IN
       /\ rep' = [rep EXCEPT !.a = SetContents(@, [rep.a EXCEPT ![at] = t])]
       /\ events' = {[kind |-> "tag", at |-> i]}
  /\ op' = NoOp
  /\ UNCHANGED <<ndebug, editVars, hash, recs, chosen>>

\* a.Iterate(&handler), the handler doing nothing.
DoIterate ==
  /\ pc = "batch" /\ Alive /\ op.name # "Iterate"
  /\ \E r \in {Iterate(rep.a, NewHandler, hash)} :
     op' = [name |-> "Iterate", status |-> r.status, msg |-> r.msg, calls |-> r.calls]
  /\ UNCHANGED <<ndebug, editVars, hash, rep, recs, events, chosen>>

\* WriteBatchInternal::InsertInto(&a, mem)
DoInsertInto ==
  /\ pc = "batch" /\ Alive /\ op.name # "InsertInto"
  /\ \E r \in {InsertInto(rep.a, ndebug, hash)} :
     op' = [name |-> "InsertInto", status |-> r.status, msg |-> r.msg,
            calls |-> r.calls, mem |-> r.h.mem, sequence_ |-> r.h.sequence_]
  /\ UNCHANGED <<ndebug, editVars, hash, rep, recs, events, chosen>>

\* WriteBatch b; WriteBatchInternal::SetFences(&a, &b); op keeps b.
DoSetFences ==
  /\ pc = "guard" /\ Alive /\ op.name # "SetFences"
  /\ \E r \in {SetFences(rep.a, ClearBatch, ndebug, hash)} :
     /\ op' = [name |-> "SetFences", status |-> r.status, msg |-> r.msg,
               calls |-> r.calls, picked |-> r.h.picked,
               sequence_ |-> r.h.sequence_, num_guards |-> r.h.num_guards,
               new_batch |-> r.h.new_batch]
     /\ chosen' = [k \in BKeys |->
          LET mine == {j \in 1 .. Len(r.h.picked) : r.h.picked[j][1] = k} IN
          [levels |-> chosen[k].levels \cup {r.h.picked[j][2] : j \in mine},
           puts |-> IF chosen[k].puts + Cardinality(mine) > MaxPuts THEN MaxPuts
                    ELSE chosen[k].puts + Cardinality(mine)]]
  /\ UNCHANGED <<ndebug, editVars, hash, rep, recs, events>>

NextBatch ==
  \/ DoPut \/ DoDelete \/ DoPutFence \/ DoBuildB \/ DoClear
  \/ DoSetSequence \/ DoSetCount \/ DoAppend
  \/ DoSetContentsCut \/ DoSetContentsBadTag
  \/ DoIterate \/ DoInsertInto

SpecBatch == InitBatch /\ [][NextBatch]_vars

NextGuard ==
  \/ DoPut \/ DoDelete \/ DoPutFence \/ DoClear \/ DoSetSequence \/ DoSetFences

SpecGuard == InitGuard /\ [][NextGuard]_vars

-----------------------------------------------------------------------------
(* Properties of the batch specifications. *)

Happened(kind) == \E e \in events : e.kind = kind
TheEvent(kind) == CHOOSE e \in events : e.kind = kind

\* C3: after n calls of Put, Delete and PutFence on a cleared batch the count
\* of the header is n, and Iterate returns OK after one handler call per call
\* made, of the same kind and arguments, in order.
C3_BatchCount ==
  events = {} =>
    /\ Count(rep.a) = Len(recs.a)
    /\ op.name = "Iterate" => op.status = "OK" /\ op.calls = Recs("a")

C3_Witness ==
  /\ events = {} /\ op.name = "Iterate" /\ op.status = "OK"
  /\ Len(op.calls) = 3
  /\ {op.calls[i].kind : i \in 1 .. 3} = {"Put", "Delete", "Fence"}

\* C4: a.Append(b) makes the count of a the sum of the two counts, leaves the
\* sequence number of a and the whole of b as they were, and Iterate on a then
\* dispatches the former records of a, then those of b.
C4_AppendAdditivity ==
  /\ op.name = "Append" =>
       /\ Count(rep.a) = Count(op.before.a) + Count(op.before.b)
       /\ Sequence(rep.a) = Sequence(op.before.a)
       /\ rep.b = op.before.b
  /\ (op.name = "Iterate" /\ Happened("Append")) =>
       /\ op.status = "OK"
       /\ op.calls = Take(Recs("a"), TheEvent("Append").n) \o Recs("b")

C4_Witness ==
  /\ op.name = "Iterate" /\ Happened("Append") /\ op.status = "OK"
  /\ TheEvent("Append").n = 2 /\ Len(recs.b) = 1 /\ Len(op.calls) = 3
  /\ Sequence(rep.a) = 5

\* What the mutable table is handed for records rs replayed from sequence s:
\* the record at position i gets s + i, a Fence record takes its number and
\* adds nothing.
RECURSIVE ExpectedAdds(_, _)
ExpectedAdds(rs, s) ==
  IF rs = <<>> THEN <<>>
  ELSE (IF Head(rs).kind = "Put"
          THEN <<[seq |-> s, type |-> kTypeValue, key |-> Head(rs).key,
                  value |-> Head(rs).value]>>
        ELSE IF Head(rs).kind = "Delete"
          THEN <<[seq |-> s, type |-> kTypeDeletion, key |-> Head(rs).key,
                  value |-> <<>>]>>
        ELSE <<>>)
       \o ExpectedAdds(Tail(rs), s + 1)

IsPrefix(p, q) == Len(p) <= Len(q) /\ p = Take(q, Len(p))
BodyIntact == ~Happened("cut") /\ ~Happened("tag")

WholeRecords == Cardinality({i \in 1 .. Len(recs.a) : recs.a[i].end <= Len(rep.a)})
\* The body of a is a sequence of whole records.
BodyParses ==
  /\ Len(rep.a) >= kHeader
  /\ ~Happened("tag")
  /\ Len(rep.a) = kHeader \/ \E i \in 1 .. Len(recs.a) : recs.a[i].end = Len(rep.a)

\* C9: on a buffer of at least 12 bytes whose body is m whole records, Iterate
\* returns OK exactly when the count of the header is m, and Corruption after
\* dispatching all m records otherwise; a buffer of fewer than 12 bytes is
\* rejected before any handler call.
C9_CountCrossCheck ==
  op.name = "Iterate" =>
    /\ BodyParses =>
         /\ op.calls = Take(Recs("a"), WholeRecords)
         /\ op.status = "OK" <=> Count(rep.a) = WholeRecords
         /\ Count(rep.a) # WholeRecords =>
              op.status = "Corruption" /\ op.msg = "WriteBatch has wrong count"
    /\ Len(rep.a) < kHeader => op.status = "Corruption" /\ op.calls = <<>>

C9_Witness ==
  /\ op.name = "Iterate" /\ BodyParses /\ Happened("SetCount")
  /\ WholeRecords = 3 /\ Count(rep.a) = 2
  /\ op.status = "Corruption" /\ Len(op.calls) = 3

\* C10: at a tag byte that is no tag, or a record cut short, at position i,
\* Iterate returns Corruption having made the handler calls of the records
\* before i, in order, and no other.
C10_AbortOnBadRecord ==
  op.name = "Iterate" =>
    /\ Happened("tag") =>
         /\ op.status = "Corruption" /\ op.msg = "unknown WriteBatch tag"
         /\ op.calls = Take(Recs("a"), TheEvent("tag").at - 1)
    /\ (Happened("cut") /\ Len(rep.a) >= kHeader /\ ~BodyParses) =>
         /\ op.status = "Corruption"
         /\ op.calls = Take(Recs("a"), WholeRecords)

C10_Witness ==
  /\ op.name = "Iterate" /\ Happened("tag") /\ TheEvent("tag").at = 2
  /\ Len(recs.a) = 3 /\ op.status = "Corruption" /\ Len(op.calls) = 1

\* The records of a batch, read back with a handler that does nothing.
RecordsOf(b) == Iterate(b, NewHandler, hash).calls

SinglePut == Len(recs.a) = 1 /\ recs.a[1].r.kind = "Put"

\* C5: SetFences over a batch that is a single Put of key k leaves the output
\* batch empty, or holding one Fence record (k, L') for each level from some
\* level L to the last, in increasing order, and nothing else.
C5_GuardMonotonicity ==
  (op.name = "SetFences" /\ SinglePut) =>
     LET out == RecordsOf(op.new_batch)
         k == recs.a[1].r.key
     IN \/ out = <<>>
        \/ \E L \in Levels :
             out = [j \in 1 .. (kNumLevels - L) |-> FenceRec(k, L + j - 1)]

C5_Witness ==
  /\ op.name = "SetFences" /\ SinglePut /\ op.status = "OK"
  /\ Len(RecordsOf(op.new_batch)) = 3
  /\ RecordsOf(op.new_batch)[1].level = kNumLevels - 3

\* C6: the shallowest fence level chosen for a key (kNumLevels standing for no
\* fence) is the same for every Put of that key the selector ever handles, in
\* whatever batch, at whatever position, with whatever value and header
\* sequence number.
C6_GuardDeterminism == \A k \in BKeys : Cardinality(chosen[k].levels) <= 1

C6_Witness ==
  /\ op.name = "SetFences" /\ Sequence(rep.a) = 5
  /\ chosen[K1].puts = 2
  /\ chosen[K1].levels = {kNumLevels - 3}
  /\ Len(op.picked) = 2 /\ op.picked[1][1] = K2 /\ op.picked[2][1] = K1

\* The position in batch a of its first Fence record, 0 when it has none.
FirstFence ==
  IF \E i \in 1 .. Len(recs.a) : recs.a[i].r.kind = "Fence"
    THEN CHOOSE i \in 1 .. Len(recs.a) :
           /\ recs.a[i].r.kind = "Fence"
           /\ \A j \in 1 .. (i - 1) : recs.a[j].r.kind # "Fence"
    ELSE 0

\* C12: SetFences over a batch that holds a Fence record ends the process at
\* that record: it returns no status, and no record behind the Fence record
\* is handed to the selector.
C12_FenceInInputFatal ==
  (op.name = "SetFences" /\ FirstFence > 0) =>
     /\ op.status = "abort"
     /\ op.calls = Take(Recs("a"), FirstFence)

\* The levels at which the low (27 - 2 * L) bits of h are all 1.
GuardLevelsOf(h) == {L \in Levels : h % Pow2(27 - 2 * L) = Pow2(27 - 2 * L) - 1}

\* The Fence records of key for the levels of S, in increasing order of level.
RECURSIVE FencesFrom(_, _, _)
FencesFrom(key, S, L) ==
  IF L >= kNumLevels THEN <<>>
  ELSE (IF L \in S THEN <<FenceRec(key, L)>> ELSE <<>>) \o FencesFrom(key, S, L + 1)

\* What the placement rule asks for the records handled, in their order.
RECURSIVE PlacementOf(_)
PlacementOf(calls) ==
  IF calls = <<>> THEN <<>>
  ELSE (IF Head(calls).kind = "Put"
          THEN FencesFrom(Head(calls).key, GuardLevelsOf(hash[Head(calls).key]), 0)
          ELSE <<>>) \o PlacementOf(Tail(calls))

C14_WitnessNoMatch ==
  /\ op.name = "SetFences" /\ op.status = "OK" /\ Len(op.calls) = 1
  /\ op.calls[1].kind = "Put" /\ hash[op.calls[1].key] = 32766
  /\ RecordsOf(op.new_batch) = <<>>

\* The decodes of src on a newly constructed object that return OK.
FreshDecodes(src) ==
  {r.e : r \in {x \in {DecodeFrom(NewVersionEdit, src,
                          [ndebug |-> ndebug, tag2 |-> t, fnumber |-> t, ub |-> ub]) :
                       t \in Junk, ub \in UBOutcomes} : x.status = "OK"}}

\* The four fields named by C15 hold no entry.
NothingLeftOver(e) ==
  /\ e.deleted_fences_ = <<>>
  /\ e.deleted_sentinel_files_ = {}
  /\ \A l \in Levels : e.new_complete_fences_[l] = <<>> /\ e.sentinel_file_nos_[l] = <<>>

\* C15: Clear() on the edit the mutators built leaves no entry in the
\* deleted-fence set, the complete-fence lists, the deleted-sentinel-file set
\* and the sentinel-file-number lists, and EncodeTo after it appends nothing;
\* a successful DecodeFrom(src) on a used object yields an edit that a
\* DecodeFrom(src) on a newly constructed object yields as well.
C15_DecodeYieldsFreshEdit ==
  /\ (pc = "build" /\ ~ecrashed) =>
        /\ NothingLeftOver(Clear(edit))
        /\ EncodeTo(Clear(edit), <<>>) = <<>>
  /\ (pc = "redecoded" /\ dstatus = "OK") => dec \in FreshDecodes(buf)

====
